---- MODULE Spec2Model ----
(***************************************************************************)
(* State-machine model of the url_crawler orchestration engine:            *)
(*   core/crawler.py  (should_crawl_url, process_url_queue,                *)
(*                     process_completed_task, crawl)                      *)
(*   core/fetcher.py  (fetch_url)                                          *)
(* A URL is a record [netloc, tail]: netloc is the host as a sequence of   *)
(* dot-separated labels, tail the sequence of tokens that follow it in the *)
(* URL string (path, extension, "#", fragment).                            *)
(***************************************************************************)
EXTENDS Integers, Sequences, FiniteSets, TLC

VARIABLES
    start_url,          \* crawl() argument
    max_depth,          \* crawl() argument
    domains_arg,        \* crawl() argument allowed_domains as passed by the caller
    allowed_domains,    \* local allowed_domains after crawler.py:134-136
    blacklist,          \* crawl() argument
    rate_limit,         \* crawl() argument
    max_retries,        \* crawl() argument: attempts of the retry client
    urls_to_visit,      \* asyncio.Queue of (url, depth)
    visited_urls,       \* set of urls
    tasks,              \* fetch tasks that exist and were not popped: list of records
    semaphore,          \* value of the global asyncio.Semaphore
    domain_semaphores,  \* dict host -> value of that host's asyncio.Semaphore
    stats,              \* global counters of the stats dict
    domain_stats,       \* stats['domain_statistics']: dict host -> counters
    crawl_pc,           \* where the coroutine crawl() is
    crawl_result,       \* how the call of crawl() ended, as its caller sees it
    cancel_requested,   \* the caller cancelled crawl()
    cooldown,           \* history: per host, seconds left of the last 429 hint
    dispatched,         \* history: every (url, depth) given to create_task_for_url
    enqueued,           \* history: every (url, depth) ever put into urls_to_visit
    retried_processed   \* history: number of processed completions whose fetch
                        \* took more than one attempt

vars == <<start_url, max_depth, domains_arg, allowed_domains, blacklist, rate_limit,
          max_retries, urls_to_visit, visited_urls, tasks, semaphore, domain_semaphores,
          stats, domain_stats, crawl_pc, crawl_result, cancel_requested,
          cooldown, dispatched, enqueued, retried_processed>>

cfgvars == <<start_url, max_depth, domains_arg, allowed_domains, blacklist, rate_limit,
             max_retries>>

----------------------------------------------------------------------------
(* Bounds of the model *)
MaxRateLimit == 2
MaxDepthBound == 2
MaxRetriesBound == 3

(* Program constants *)
MAX_CONCURRENT_PER_DOMAIN == 2
DomainSemaphoreInit == 2
DefaultRetryAfter == 30

----------------------------------------------------------------------------
(* The URL universe served by the transport *)
HostA == <<"a", "test">>
HostB == <<"b", "test">>
Hosts == {HostA, HostB}

Url(h, t) == [netloc |-> h, tail |-> t]

A0   == Url(HostA, <<"/">>)
A1   == Url(HostA, <<"/p1">>)
A1x  == Url(HostA, <<"/p1", "#", "x">>)
A1y  == Url(HostA, <<"/p1", "#", "y">>)
Img  == Url(HostA, <<"/i", ".png">>)
B2   == Url(HostB, <<"/p2">>)

\* a second site on host a.test, not linked with the first
R0   == Url(HostA, <<"/r0">>)
RP   == Url(HostA, <<"/rp">>)
RQ   == Url(HostA, <<"/rq">>)
RM   == Url(HostA, <<"/rm">>)
RU   == Url(HostA, <<"/ru">>)
RV   == Url(HostA, <<"/rv">>)
RW   == Url(HostA, <<"/rw">>)

\* a third site: an index page with leaf pages on both hosts
T0   == Url(HostA, <<"/t0">>)
TA1  == Url(HostA, <<"/ta1">>)
TA2  == Url(HostA, <<"/ta2">>)
TA3  == Url(HostA, <<"/ta3">>)
TB1  == Url(HostB, <<"/tb1">>)
TB2  == Url(HostB, <<"/tb2">>)
TB3  == Url(HostB, <<"/tb3">>)

Urls == {A0, A1, A1x, A1y, Img, B2, R0, RP, RQ, RM, RU, RV, RW,
         T0, TA1, TA2, TA3, TB1, TB2, TB3}

PNG == <<".png">>

\* the Retry-After header of a 429: absent, or a number of seconds
NoHint == <<>>
Hints == {NoHint, <<5>>}

----------------------------------------------------------------------------
(* String helpers, computed on the token form of a URL *)

\* the URL string as the sequence of its tokens
UrlString(url) == url.netloc \o url.tail

\* str.endswith
EndsWith(s, suffix) ==
    /\ Len(suffix) <= Len(s)
    /\ SubSeq(s, Len(s) - Len(suffix) + 1, Len(s)) = suffix

\* position of the first "#" of a token sequence, Len+1 when there is none
FirstHash(t) ==
    IF \E i \in 1..Len(t) : t[i] = "#"
    THEN CHOOSE i \in 1..Len(t) : t[i] = "#" /\ \A j \in 1..(i-1) : t[j] # "#"
    ELSE Len(t) + 1

\* urllib.parse.urldefrag(url)[0]
urldefrag(url) == [url EXCEPT !.tail = SubSeq(url.tail, 1, FirstHash(url.tail) - 1)]

\* urllib.parse.urlparse(url).netloc
netloc(url) == url.netloc

\* the links fetch_url extracts from the page the transport serves for url
\* (the fragment is not part of the request)
PageLinks(url) ==
    LET page == urldefrag(url) IN
    IF page = A0 THEN <<A1x, A1y, Img, B2>>
    ELSE IF page = A1 THEN <<A1, A0>>
    ELSE IF page = B2 THEN <<A1, B2>>
    ELSE IF page = R0 THEN <<RP, RQ>>
    ELSE IF page = RP THEN <<RM>>
    ELSE IF page = RM THEN <<RU>>
    ELSE IF page = RQ THEN <<RU>>
    ELSE IF page = RU THEN <<RV>>
    ELSE IF page = RV THEN <<RW>>
    ELSE IF page = T0 THEN <<TA1, TA2, TB1, TB2, TA3, TB3>>
    ELSE <<>>

----------------------------------------------------------------------------
(* core/crawler.py *)

\* should_crawl_url without the test of lines 28-29
should_crawl_url_no_domain_test(url, depth, maxd, visited, allowed, black) ==
    LET url_without_fragment == urldefrag(url) IN
    IF url_without_fragment \in visited THEN FALSE
    ELSE IF depth > maxd \/ url \in visited THEN FALSE
    ELSE IF black # {} /\ \E ext \in black : EndsWith(UrlString(url), ext) THEN FALSE
    ELSE TRUE

\* should_crawl_url without the test of lines 31-32
should_crawl_url_no_blacklist_test(url, depth, maxd, visited, allowed, black) ==
    LET url_without_fragment == urldefrag(url) IN
    IF url_without_fragment \in visited THEN FALSE
    ELSE IF depth > maxd \/ url \in visited THEN FALSE
    ELSE IF allowed # {} /\ netloc(url) \notin allowed THEN FALSE
    ELSE TRUE

should_crawl_url(url, depth, maxd, visited, allowed, black) ==
    LET url_without_fragment == urldefrag(url) IN
    IF url_without_fragment \in visited THEN FALSE
    ELSE IF depth > maxd \/ url \in visited THEN FALSE
    ELSE IF allowed # {} /\ netloc(url) \notin allowed THEN FALSE
    ELSE IF black # {} /\ \E ext \in black : EndsWith(UrlString(url), ext) THEN FALSE
    ELSE TRUE

\* the task object asyncio.create_task returns, with its (url, depth)
create_task_for_url(url, depth) ==
    [url |-> url, depth |-> depth, pc |-> "created", timer |-> 0, links |-> <<>>,
     retries |-> 0]

\* the loop bound of process_url_queue: its own list against rate_limit
QueueLoopContinues(queue, new, inflight, limit) ==
    queue # <<>> /\ Len(new) < limit

\* process_url_queue: st = [queue, visited, new], inflight = len of crawl's list
RECURSIVE process_url_queue(_, _)
process_url_queue(st, inflight) ==
    IF ~QueueLoopContinues(st.queue, st.new, inflight, rate_limit) THEN st
    ELSE LET url   == Head(st.queue)[1]
             depth == Head(st.queue)[2]
         IN IF ~should_crawl_url(url, depth, max_depth, st.visited,
                                 allowed_domains, blacklist)
            THEN process_url_queue([st EXCEPT !.queue = Tail(st.queue)], inflight)
            ELSE process_url_queue(
                   [queue   |-> Tail(st.queue),
                    visited |-> st.visited \cup {url},
                    new     |-> Append(st.new, create_task_for_url(url, depth))],
                   inflight)

\* the test of line 115 alone, without the test of line 112
LinkIsEnqueued_no_depth_test(link, depth, maxd, visited) ==
    link \notin visited

\* which links of a completed page go to the queue
LinkIsEnqueued(link, depth, maxd, visited) ==
    depth < maxd /\ link \notin visited

\* the depth a discovered link is queued with
ChildDepth(depth) == depth + 1

\* the for loop of process_completed_task over links
RECURSIVE AddLinks(_, _, _, _)
AddLinks(links, depth, visited, queue) ==
    IF links = <<>> THEN queue
    ELSE AddLinks(Tail(links), depth, visited,
                  IF LinkIsEnqueued(Head(links), depth, max_depth, visited)
                  THEN Append(queue, <<Head(links), ChildDepth(depth)>>)
                  ELSE queue)

\* a counter that grows with the attempts the retry client made
CrawledIncrement_per_attempt(t) == 1 + t.retries

\* line 108: stats['total_number_of_urls_crawled'] += 1
CrawledIncrement(t) == 1

\* process_completed_task for one task: lines 107-118 when "await done_task"
\* gives the task's result, lines 120-122 when it raises.
\* st = [queue, crawled, errors]
process_completed_task(t, st) ==
    IF t.pc = "raised"
    THEN [st EXCEPT !.errors = @ + 1]
    ELSE [queue   |-> AddLinks(t.links, t.depth, visited_urls, st.queue),
          crawled |-> st.crawled + CrawledIncrement(t),
          errors  |-> st.errors]

\* lines 198-205: process_completed_task for the tasks at positions order[1],
\* order[2], ...
RECURSIVE process_completed_tasks(_, _)
process_completed_tasks(order, st) ==
    IF order = <<>> THEN st
    ELSE process_completed_tasks(Tail(order),
                                 process_completed_task(tasks[Head(order)], st))

\* the (url, depth) pairs of a queue from position n+1 on
QueueItemsFrom(queue, n) == {queue[i] : i \in (n+1)..Len(queue)}

\* the orders in which "for done_task in done" may go through a set
Orders(S) ==
    {o \in [1..Cardinality(S) -> S] : \A i, j \in 1..Cardinality(S) : o[i] = o[j] => i = j}

\* the list tasks without the positions in S
RECURSIVE RemoveAt(_, _, _)
RemoveAt(seq, S, i) ==
    IF i > Len(seq) THEN <<>>
    ELSE IF i \in S THEN RemoveAt(seq, S, i + 1)
    ELSE <<seq[i]>> \o RemoveAt(seq, S, i + 1)

\* the finally block of crawl: MAX_CONCURRENT_PER_DOMAIN releases per host;
\* asyncio.Semaphore.release never raises ValueError
CleanupSemaphores(dsems) ==
    [d \in DOMAIN dsems |-> dsems[d] + MAX_CONCURRENT_PER_DOMAIN]

\* what the caller of crawl gets when crawl was cancelled: the return in the
\* finally block replaces the CancelledError that "raise" re-raised
ResultOnCancel == "stats"

----------------------------------------------------------------------------
(* core/fetcher.py *)

Max(a, b) == IF a >= b THEN a ELSE b

\* '.'.join(domain.split('.')[-2:])
BaseDomain(domain) == SubSeq(domain, Max(1, Len(domain) - 1), Len(domain))

\* base_domain in d, on sequences of labels
Contains(d, b) ==
    \E i \in 1..(Len(d) + 1) : i + Len(b) - 1 <= Len(d) /\ SubSeq(d, i, i + Len(b) - 1) = b

\* the entry fetch_url creates for a host it sees for the first time
NewDomainStats == [errors |-> 0, crawled |-> 0, consecutive_429s |-> 0]

\* domain_stats after lines 26-34
WithDomain(dstats, domain) ==
    IF domain \in DOMAIN dstats THEN dstats
    ELSE [d \in DOMAIN dstats \cup {domain} |->
            IF d = domain THEN NewDomainStats ELSE dstats[d]]

\* lines 26-38: the early return "Skipping external domain"
SkipsExternalDomain(domain, dstats) ==
    /\ domain \notin DOMAIN dstats
    /\ ~ \E d \in DOMAIN WithDomain(dstats, domain) : Contains(d, BaseDomain(domain))

\* lines 47-48: get or create the host's semaphore
WithSemaphore(dsems, domain) ==
    IF domain \in DOMAIN dsems THEN dsems
    ELSE [d \in DOMAIN dsems \cup {domain} |->
            IF d = domain THEN DomainSemaphoreInit ELSE dsems[d]]

\* an acquire that never waits
CanAcquire_always(value) == TRUE

\* asyncio.Semaphore.acquire can take a token
CanAcquire(value) == value > 0

\* int(response.headers.get('Retry-After', 30))
WaitTime(hint) == IF hint = NoHint THEN DefaultRetryAfter ELSE hint[1]

SetTask(i, t) == [tasks EXCEPT ![i] = t]

\* a release that gives back the host's token only
ReleaseTokens_keeps_global(domain) ==
    /\ domain_semaphores' = [domain_semaphores EXCEPT ![domain] = @ + 1]
    /\ semaphore' = semaphore

\* leaving "async with semaphore, domain_semaphores[domain]"
ReleaseTokens(domain) ==
    /\ domain_semaphores' = [domain_semaphores EXCEPT ![domain] = @ + 1]
    /\ semaphore' = semaphore + 1

\* line 50, second context manager: the token is taken at once when there is
\* one, and lines 51-55 issue the request; otherwise the task waits for it
PcAfterGlobal(dsems, domain) ==
    IF CanAcquire(dsems[domain]) THEN "io" ELSE "wait_domain"

DomainAfterGlobal(dsems, domain) ==
    IF CanAcquire(dsems[domain]) THEN [dsems EXCEPT ![domain] = @ - 1] ELSE dsems

\* the first step of task i: fetch_url lines 23-48, then line 50 as far as
\* the semaphores let the task go without waiting.
\* st = [tasks, semaphore, domain_semaphores, domain_stats]
fetch_url_start(st, i) ==
    LET t == st.tasks[i]
        domain == netloc(t.url)
        dstats == WithDomain(st.domain_stats, domain)
        dsems == WithSemaphore(st.domain_semaphores, domain)
    IN IF SkipsExternalDomain(domain, st.domain_stats)
       THEN [st EXCEPT !.tasks[i].pc = "done", !.domain_stats = dstats]
       ELSE IF CanAcquire(st.semaphore)
       THEN [tasks |-> [st.tasks EXCEPT ![i].pc = PcAfterGlobal(dsems, domain)],
             semaphore |-> st.semaphore - 1,
             domain_semaphores |-> DomainAfterGlobal(dsems, domain),
             domain_stats |-> dstats]
       ELSE [tasks |-> [st.tasks EXCEPT ![i].pc = "wait_global"],
             semaphore |-> st.semaphore,
             domain_semaphores |-> dsems,
             domain_stats |-> dstats]

\* the tasks that asyncio.create_task made ready run their first step one
\* after the other, in the order of their creation
RECURSIVE start_created_tasks(_, _)
start_created_tasks(st, i) ==
    IF i > Len(st.tasks) THEN st
    ELSE IF st.tasks[i].pc = "created"
    THEN start_created_tasks(fetch_url_start(st, i), i + 1)
    ELSE start_created_tasks(st, i + 1)

CreatedTasks == {i \in 1..Len(tasks) : tasks[i].pc = "created"}

TaskStart ==
    /\ CreatedTasks # {}
    /\ LET st == start_created_tasks(
                    [tasks |-> tasks, semaphore |-> semaphore,
                     domain_semaphores |-> domain_semaphores,
                     domain_stats |-> domain_stats], 1)
       IN /\ tasks' = st.tasks
          /\ semaphore' = st.semaphore
          /\ domain_semaphores' = st.domain_semaphores
          /\ domain_stats' = st.domain_stats
    /\ UNCHANGED <<cfgvars, urls_to_visit, visited_urls, stats,
                   crawl_pc, crawl_result, cancel_requested, cooldown,
                   dispatched, enqueued, retried_processed>>

\* line 50, first context manager, for a task that had to wait for the token
AcquireGlobal(i) ==
    LET t == tasks[i]
        domain == netloc(t.url)
    IN /\ t.pc = "wait_global"
       /\ CanAcquire(semaphore)
       /\ semaphore' = semaphore - 1
       /\ domain_semaphores' = DomainAfterGlobal(domain_semaphores, domain)
       /\ tasks' = SetTask(i, [t EXCEPT !.pc = PcAfterGlobal(domain_semaphores, domain)])
       /\ UNCHANGED <<cfgvars, urls_to_visit, visited_urls, stats,
                      domain_stats, crawl_pc, crawl_result, cancel_requested,
                      cooldown, dispatched, enqueued, retried_processed>>

\* line 50, second context manager, for a task that had to wait for the
\* token; then lines 51-55: the request is issued
AcquireDomain(i) ==
    LET t == tasks[i]
        domain == netloc(t.url)
    IN /\ t.pc = "wait_domain"
       /\ CanAcquire(domain_semaphores[domain])
       /\ domain_semaphores' = [domain_semaphores EXCEPT ![domain] = @ - 1]
       /\ tasks' = SetTask(i, [t EXCEPT !.pc = "io"])
       /\ UNCHANGED <<cfgvars, urls_to_visit, visited_urls, semaphore, stats,
                      domain_stats, crawl_pc, crawl_result, cancel_requested,
                      cooldown, dispatched, enqueued, retried_processed>>

\* lines 57-61: status 429, the task sleeps inside the "async with"
Respond429(i, hint) ==
    LET t == tasks[i]
        domain == netloc(t.url)
    IN /\ t.pc = "io"
       /\ domain_stats' = [domain_stats EXCEPT ![domain].consecutive_429s = @ + 1]
       /\ tasks' = SetTask(i, [t EXCEPT !.pc = "sleeping", !.timer = WaitTime(hint)])
       /\ cooldown' = [cooldown EXCEPT ![domain] = Max(@, WaitTime(hint))]
       /\ UNCHANGED <<cfgvars, urls_to_visit, visited_urls, semaphore,
                      domain_semaphores, stats, crawl_pc, crawl_result,
                      cancel_requested, dispatched, enqueued, retried_processed>>

\* line 62 after the sleep: return [], "", 0
Wake(i) ==
    LET t == tasks[i] IN
    /\ t.pc = "sleeping"
    /\ t.timer = 0
    /\ tasks' = SetTask(i, [t EXCEPT !.pc = "done"])
    /\ ReleaseTokens(netloc(t.url))
    /\ UNCHANGED <<cfgvars, urls_to_visit, visited_urls, stats, domain_stats,
                   crawl_pc, crawl_result, cancel_requested, cooldown,
                   dispatched, enqueued, retried_processed>>

\* lines 64-70: not 429, content type not allowed
RespondSkip(i) ==
    LET t == tasks[i]
        domain == netloc(t.url)
    IN /\ t.pc = "io"
       /\ domain_stats' = [domain_stats EXCEPT ![domain].consecutive_429s = 0]
       /\ tasks' = SetTask(i, [t EXCEPT !.pc = "done"])
       /\ ReleaseTokens(domain)
       /\ UNCHANGED <<cfgvars, urls_to_visit, visited_urls, stats, crawl_pc,
                      crawl_result, cancel_requested, cooldown, dispatched, enqueued, retried_processed>>

\* a worker that also counts the URL in the global crawled counter
RespondOk_counts_crawled(i) ==
    LET t == tasks[i]
        domain == netloc(t.url)
    IN /\ t.pc = "io"
       /\ domain_stats' = [domain_stats EXCEPT ![domain].consecutive_429s = 0,
                                               ![domain].crawled = @ + 1]
       /\ stats' = [stats EXCEPT !.total_number_of_urls_crawled = @ + 1]
       /\ tasks' = SetTask(i, [t EXCEPT !.pc = "done", !.links = PageLinks(t.url)])
       /\ ReleaseTokens(domain)
       /\ UNCHANGED <<cfgvars, urls_to_visit, visited_urls, crawl_pc,
                      crawl_result, cancel_requested, cooldown, dispatched, enqueued, retried_processed>>

\* lines 64-112: status 2xx, links extracted
RespondOk(i) ==
    LET t == tasks[i]
        domain == netloc(t.url)
    IN /\ t.pc = "io"
       /\ domain_stats' = [domain_stats EXCEPT ![domain].consecutive_429s = 0,
                                               ![domain].crawled = @ + 1]
       /\ tasks' = SetTask(i, [t EXCEPT !.pc = "done", !.links = PageLinks(t.url)])
       /\ ReleaseTokens(domain)
       /\ UNCHANGED <<cfgvars, urls_to_visit, visited_urls, stats, crawl_pc,
                      crawl_result, cancel_requested, cooldown, dispatched, enqueued, retried_processed>>

\* lines 64-85, 113-116: status neither 2xx nor 429
RespondError(i) ==
    LET t == tasks[i]
        domain == netloc(t.url)
    IN /\ t.pc = "io"
       /\ domain_stats' = [domain_stats EXCEPT ![domain].consecutive_429s = 0,
                                               ![domain].crawled = @ + 1,
                                               ![domain].errors = @ + 1]
       /\ stats' = [stats EXCEPT !.total_number_of_errors = @ + 1]
       /\ tasks' = SetTask(i, [t EXCEPT !.pc = "done"])
       /\ ReleaseTokens(domain)
       /\ UNCHANGED <<cfgvars, urls_to_visit, visited_urls, crawl_pc,
                      crawl_result, cancel_requested, cooldown, dispatched, enqueued, retried_processed>>

\* an exception that leaves fetch_url
FailureOutcome_raises == "raised"

\* lines 118-127: both except clauses end with "return [], "", 0"
FailureOutcome == "done"

\* the retry client of crawler.py:149-155 inside client.get (line 55): an
\* attempt ended with a status of {500, 502, 503, 504} or with an exception
\* and attempts are left; the client waits and sends the request again
RetryAttempt(i) ==
    LET t == tasks[i] IN
    /\ t.pc = "io"
    /\ t.retries + 1 < max_retries
    /\ tasks' = SetTask(i, [t EXCEPT !.retries = @ + 1])
    /\ UNCHANGED <<cfgvars, urls_to_visit, visited_urls, semaphore,
                   domain_semaphores, stats, domain_stats, crawl_pc, crawl_result,
                   cancel_requested, cooldown, dispatched, enqueued,
                   retried_processed>>

\* lines 118-127: client.get raised
NetworkError(i) ==
    LET t == tasks[i]
        domain == netloc(t.url)
    IN /\ t.pc = "io"
       /\ domain_stats' = [domain_stats EXCEPT ![domain].errors = @ + 1]
       /\ stats' = [stats EXCEPT !.total_number_of_errors = @ + 1]
       /\ tasks' = SetTask(i, [t EXCEPT !.pc = FailureOutcome])
       /\ ReleaseTokens(domain)
       /\ UNCHANGED <<cfgvars, urls_to_visit, visited_urls, crawl_pc,
                      crawl_result, cancel_requested, cooldown, dispatched, enqueued, retried_processed>>

----------------------------------------------------------------------------
(* Time: asyncio.sleep timers and the 429 windows run down together *)

Timers ==
    {tasks[i].timer : i \in {j \in 1..Len(tasks) : tasks[j].pc = "sleeping"}}
      \cup {cooldown[d] : d \in Hosts}

MinOf(S) == CHOOSE x \in S : \A y \in S : x <= y

Tick ==
    LET running == {x \in Timers : x > 0} IN
    /\ running # {}
    /\ LET delta == MinOf(running) IN
       /\ tasks' = [i \in 1..Len(tasks) |->
                      IF tasks[i].pc = "sleeping"
                      THEN [tasks[i] EXCEPT !.timer = Max(0, @ - delta)]
                      ELSE tasks[i]]
       /\ cooldown' = [d \in Hosts |-> Max(0, cooldown[d] - delta)]
    /\ UNCHANGED <<cfgvars, urls_to_visit, visited_urls, semaphore,
                   domain_semaphores, stats, domain_stats, crawl_pc,
                   crawl_result, cancel_requested, dispatched, enqueued,
                   retried_processed>>

----------------------------------------------------------------------------
(* crawl: the orchestrating coroutine *)

EmptyDict == [d \in {} |-> 0]

\* the tasks asyncio.wait reports as done: finished with a result or an exception
DoneTasks == {i \in 1..Len(tasks) : tasks[i].pc \in {"done", "raised"}}

\* crawler.py:134-136
DefaultAllowedDomains(arg, seed) == IF arg = {} THEN {netloc(seed)} ELSE arg

Seeds == {A0}
DomainArgs == {{}, {HostA}, {HostB}, {HostA, HostB}}
BlacklistArgs == {{}, {PNG}}

\* crawl lines 134-174, for the arguments of the call
InitCrawl ==
    /\ allowed_domains = DefaultAllowedDomains(domains_arg, start_url)
    /\ urls_to_visit = << <<start_url, 0>> >>
    /\ visited_urls = {}
    /\ tasks = <<>>
    /\ semaphore = rate_limit
    /\ domain_semaphores = EmptyDict
    /\ stats = [total_number_of_urls_crawled |-> 0, total_number_of_errors |-> 0]
    /\ domain_stats = EmptyDict
    /\ crawl_pc = "loop"
    /\ crawl_result = "none"
    /\ cancel_requested = FALSE
    /\ cooldown = [d \in Hosts |-> 0]
    /\ dispatched = <<>>
    /\ enqueued = { <<start_url, 0>> }
    /\ retried_processed = 0

\* the calls of crawl without retries
Init ==
    /\ start_url \in Seeds
    /\ max_depth \in 0..MaxDepthBound
    /\ domains_arg \in DomainArgs
    /\ blacklist \in BlacklistArgs
    /\ rate_limit \in 1..MaxRateLimit
    /\ max_retries = 1
    /\ InitCrawl

\* calls of crawl on host a.test with a retrying client
InitRetry ==
    /\ start_url \in Seeds
    /\ max_depth \in 0..1
    /\ domains_arg = {HostA}
    /\ blacklist = {PNG}
    /\ rate_limit \in 1..MaxRateLimit
    /\ max_retries \in 2..MaxRetriesBound
    /\ InitCrawl

\* calls of crawl with more tokens than one host has, so that tasks wait for
\* the host's semaphore while they hold a global token
InitTokens ==
    /\ start_url = T0
    /\ max_depth = 1
    /\ domains_arg = {HostA, HostB}
    /\ blacklist = {}
    /\ rate_limit = MaxRateLimit + 2
    /\ max_retries = 1
    /\ InitCrawl

\* calls of crawl on the second site, deep enough for its longest chain
InitRace ==
    /\ start_url = R0
    /\ max_depth = MaxDepthBound + 1
    /\ domains_arg = {HostA}
    /\ blacklist = {}
    /\ rate_limit = MaxRateLimit
    /\ max_retries = 1
    /\ InitCrawl

\* a loop test that looks at the queue only
LoopTest_queue_only(queue, inflight) == queue # <<>>

\* line 176: while not urls_to_visit.empty() or tasks
LoopTest(queue, inflight) == queue # <<>> \/ inflight # <<>>

\* one pass of lines 176-189: the loop test holds, new tasks are created
Dispatch ==
    /\ crawl_pc = "loop"
    /\ LoopTest(urls_to_visit, tasks)
    /\ LET st0 == [queue |-> urls_to_visit, visited |-> visited_urls, new |-> <<>>]
           st  == IF Len(tasks) < rate_limit
                  THEN process_url_queue(st0, Len(tasks))
                  ELSE st0
       IN /\ urls_to_visit' = st.queue
          /\ visited_urls' = st.visited
          /\ tasks' = tasks \o st.new
          /\ dispatched' = dispatched \o
                 [k \in 1..Len(st.new) |-> <<st.new[k].url, st.new[k].depth>>]
          /\ crawl_pc' = IF tasks \o st.new = <<>> THEN "loop" ELSE "waiting"
    /\ UNCHANGED <<cfgvars, semaphore, domain_semaphores, stats, domain_stats,
                   crawl_result, cancel_requested, cooldown, enqueued, retried_processed>>

\* lines 192-205: asyncio.wait returns, every done task is popped and processed;
\* the tasks created before the wait have run their first step by then
Completion ==
    /\ crawl_pc = "waiting"
    /\ CreatedTasks = {}
    /\ DoneTasks # {}
    /\ \E order \in Orders(DoneTasks) :
         LET st == process_completed_tasks(order,
                       [queue   |-> urls_to_visit,
                        crawled |-> stats.total_number_of_urls_crawled,
                        errors  |-> stats.total_number_of_errors])
         IN /\ urls_to_visit' = st.queue
            /\ stats' = [total_number_of_urls_crawled |-> st.crawled,
                         total_number_of_errors |-> st.errors]
            /\ enqueued' = enqueued \cup QueueItemsFrom(st.queue, Len(urls_to_visit))
    /\ retried_processed' = retried_processed
                               + Cardinality({i \in DoneTasks : tasks[i].retries > 0})
    /\ tasks' = RemoveAt(tasks, DoneTasks, 1)
    /\ crawl_pc' = "loop"
    /\ UNCHANGED <<cfgvars, visited_urls, semaphore, domain_semaphores,
                   domain_stats, crawl_result, cancel_requested, cooldown,
                   dispatched>>

\* the loop test of line 176 fails; finally block, lines 223-243
LoopExit ==
    /\ crawl_pc = "loop"
    /\ ~LoopTest(urls_to_visit, tasks)
    /\ domain_semaphores' = CleanupSemaphores(domain_semaphores)
    /\ crawl_result' = "stats"
    /\ crawl_pc' = "returned"
    /\ UNCHANGED <<cfgvars, urls_to_visit, visited_urls, tasks, semaphore, stats,
                   domain_stats, cancel_requested, cooldown, dispatched, enqueued, retried_processed>>

\* crawl is cancelled while it waits in asyncio.wait: lines 217-219, then the
\* finally block, lines 223-243; the fetch tasks are left as they are
Cancel ==
    /\ crawl_pc = "waiting"
    /\ CreatedTasks = {}
    /\ cancel_requested' = TRUE
    /\ domain_semaphores' = CleanupSemaphores(domain_semaphores)
    /\ crawl_result' = ResultOnCancel
    /\ crawl_pc' = "returned"
    /\ UNCHANGED <<cfgvars, urls_to_visit, visited_urls, tasks, semaphore, stats,
                   domain_stats, cooldown, dispatched, enqueued, retried_processed>>

TaskStep ==
    \E i \in 1..Len(tasks) :
        \/ AcquireGlobal(i)
        \/ AcquireDomain(i)
        \/ \E hint \in Hints : Respond429(i, hint)
        \/ Wake(i)
        \/ RespondSkip(i)
        \/ RespondOk(i)
        \/ RespondError(i)
        \/ RetryAttempt(i)
        \/ NetworkError(i)

Next ==
    \/ Dispatch
    \/ Completion
    \/ LoopExit
    \/ Cancel
    \/ TaskStart
    \/ TaskStep
    \/ Tick

Spec == Init /\ [][Next]_vars

\* runs with a retrying client
RetrySpec == InitRetry /\ [][Next]_vars

\* runs with contended host semaphores
\* every way a fetch leaves the "async with" of line 50
TokenStep ==
    \E i \in 1..Len(tasks) :
        \/ AcquireGlobal(i)
        \/ AcquireDomain(i)
        \/ RespondSkip(i)
        \/ RespondOk(i)
        \/ NetworkError(i)

NextTokens ==
    \/ Dispatch
    \/ Completion
    \/ LoopExit
    \/ TaskStart
    \/ TokenStep

TokenSpec == InitTokens /\ [][NextTokens]_vars

\* a fetch in which the transport answers every request with a 2xx page
OkStep ==
    \E i \in 1..Len(tasks) :
        \/ AcquireGlobal(i)
        \/ RespondOk(i)

\* the runs on the second site in which every fetch succeeds and crawl is not
\* cancelled
NextOk ==
    \/ Dispatch
    \/ Completion
    \/ LoopExit
    \/ TaskStart
    \/ OkStep

RaceSpec == InitRace /\ [][NextOk]_vars

\* the event loop runs whatever is ready and time passes; nothing forces a cancel
FairSpec == Spec /\ WF_vars(Dispatch \/ Completion \/ LoopExit \/ TaskStart \/ TaskStep \/ Tick)

----------------------------------------------------------------------------
(* Properties *)

GlobalHolders == {i \in 1..Len(tasks) : tasks[i].pc \in {"wait_domain", "io", "sleeping"}}
DomainHolders(d) ==
    {i \in 1..Len(tasks) : tasks[i].pc \in {"io", "sleeping"} /\ netloc(tasks[i].url) = d}
Blacklisted(url) == \E ext \in blacklist : EndsWith(UrlString(url), ext)

\* C1: when the caller gives a non-empty list of allowed domains, every URL a
\* fetch task was created for (the seed and every discovered link) has a host
\* that is in the list.
C1_OnlyAllowedHostsDispatched ==
    domains_arg # {} =>
        \A k \in 1..Len(dispatched) : netloc(dispatched[k][1]) \in domains_arg

\* a link to a host outside the list was discovered and taken from the queue
C1_Witness ==
    /\ domains_arg = {HostA}
    /\ <<B2, 1>> \in enqueued
    /\ urls_to_visit = <<>>
    /\ Len(dispatched) >= 2

\* C2: no two dispatched tasks have the same URL once the fragment is
\* stripped, and the visited set holds the fragment-stripped form of every
\* dispatched URL.
C2_NoDuplicateDispatch ==
    /\ \A j, k \in 1..Len(dispatched) :
         j # k => urldefrag(dispatched[j][1]) # urldefrag(dispatched[k][1])
    /\ \A k \in 1..Len(dispatched) : urldefrag(dispatched[k][1]) \in visited_urls

C4_InFlightAtMostLimit ==
    crawl_pc # "returned" => Len(tasks) <= rate_limit

\* C5: when crawl has returned after a cancellation, every fetch task is
\* cancelled, the global semaphore is back at rate_limit and every host's
\* semaphore is back at 2.
C5_CancelRestoresCapacity ==
    (crawl_pc = "returned" /\ cancel_requested) =>
        /\ \A i \in 1..Len(tasks) : tasks[i].pc = "cancelled"
        /\ semaphore = rate_limit
        /\ \A d \in DOMAIN domain_semaphores : domain_semaphores[d] = DomainSemaphoreInit

\* C6: a cancelled call of crawl ends with the cancellation, never with a
\* normal return of the statistics.
C6_CancelPropagates ==
    (crawl_pc = "returned" /\ cancel_requested) => crawl_result = "cancelled"

\* C7: with rate_limit >= 1 and every fetch completing, crawl eventually
\* leaves its main loop; when the loop test ends it, the queue and the task
\* list are empty; and crawl goes from waiting back to the loop only when a
\* task is done.
C7_Termination ==
    /\ <>(crawl_pc = "returned")
    /\ [](crawl_pc = "returned" /\ ~cancel_requested =>
             urls_to_visit = <<>> /\ tasks = <<>>)
    /\ [][(crawl_pc = "waiting" /\ crawl_pc' = "loop") => DoneTasks # {}]_vars

\* a run that was not cancelled ended after several fetches
C7_Witness ==
    /\ crawl_pc = "returned"
    /\ ~cancel_requested
    /\ Len(dispatched) >= 3

\* C8: the seed is queued with depth 0; a link is queued only from a page
\* dispatched at a depth d < max_depth, and with depth d+1; every queue entry
\* and every dispatched task has a depth in 0..max_depth.
C8_Depths ==
    /\ [](/\ <<start_url, 0>> \in enqueued
          /\ \A e \in enqueued : e[2] \in 0..max_depth
          /\ \A k \in 1..Len(urls_to_visit) : urls_to_visit[k][2] \in 0..max_depth
          /\ \A k \in 1..Len(dispatched) : dispatched[k][2] \in 0..max_depth)
    /\ [][\A k \in (Len(urls_to_visit) + 1)..Len(urls_to_visit') :
            \E i \in DoneTasks :
               /\ tasks[i].depth < max_depth
               /\ urls_to_visit'[k][2] = tasks[i].depth + 1
               /\ \E n \in 1..Len(tasks[i].links) :
                     tasks[i].links[n] = urls_to_visit'[k][1]]_vars

\* links were queued and dispatched at the deepest level
C8_Witness ==
    /\ max_depth = 2
    /\ \E e \in enqueued : e[2] = 2
    /\ \E k \in 1..Len(dispatched) : dispatched[k][2] = 2
    /\ \E i \in 1..Len(tasks) :
          tasks[i].depth = max_depth /\ tasks[i].pc = "done" /\ tasks[i].links # <<>>

\* C9 as stated: with a blacklist, a discovered link that ends in a
\* blacklisted extension is never put into the queue.
C9_BlacklistedNeverEnqueued ==
    \A e \in enqueued : e[2] > 0 => ~Blacklisted(e[1])

\* C9 amended: with a blacklist, a URL that ends in a blacklisted extension is
\* never dispatched (it is rejected when it is taken from the queue).
C9_BlacklistedNeverDispatched ==
    \A k \in 1..Len(dispatched) : ~Blacklisted(dispatched[k][1])

\* a link ending in .png was queued, taken from the queue and not dispatched
C9_Witness ==
    /\ blacklist = {PNG}
    /\ <<Img, 1>> \in enqueued
    /\ \A k \in 1..Len(urls_to_visit) : urls_to_visit[k][1] # Img
    /\ Len(dispatched) >= 3

\* C10: after a 429 for a host with a hint of h seconds (30 without a hint), no
\* request to that host is issued before h seconds have passed, and the 429
\* leaves the global and the host's error counters as they are.
C10_CooldownRespected ==
    [][\A i \in 1..Len(tasks) :
         /\ (Len(tasks') = Len(tasks) /\ tasks[i].pc # "io" /\ tasks'[i].pc = "io")
               => cooldown[netloc(tasks[i].url)] = 0
         /\ (Len(tasks') = Len(tasks) /\ tasks[i].pc = "io" /\ tasks'[i].pc = "sleeping")
               => /\ stats'.total_number_of_errors = stats.total_number_of_errors
                  /\ domain_stats'[netloc(tasks[i].url)].errors
                        = domain_stats[netloc(tasks[i].url)].errors]_vars

\* the tasks whose fetch_url has not returned yet
UnfinishedTasks == {i \in 1..Len(tasks) : tasks[i].pc \notin {"done", "raised"}}

\* C11: an attempt that the retry client repeats changes no counter; when the
\* completions are processed the crawled counter grows by one per popped
\* task, whatever the number of attempts; the end of a fetch adds at most one
\* to the error counter, so the error counter never exceeds the number of
\* finished fetches.
C11_CountedOncePerUrl ==
    /\ [](stats.total_number_of_errors <= Len(dispatched) - Cardinality(UnfinishedTasks))
    /\ [][/\ (Len(tasks') = Len(tasks) /\ \E i \in 1..Len(tasks) :
                  tasks'[i].retries > tasks[i].retries) => stats' = stats
          /\ Len(tasks') < Len(tasks) =>
                /\ stats'.total_number_of_urls_crawled
                      = stats.total_number_of_urls_crawled + (Len(tasks) - Len(tasks'))
                /\ stats'.total_number_of_errors = stats.total_number_of_errors
          /\ Len(tasks') = Len(tasks) =>
                /\ stats'.total_number_of_urls_crawled = stats.total_number_of_urls_crawled
                /\ stats'.total_number_of_errors - stats.total_number_of_errors \in {0, 1}
                /\ stats'.total_number_of_errors - stats.total_number_of_errors
                      <= Cardinality(UnfinishedTasks) - Cardinality(UnfinishedTasks')
          /\ Len(tasks') > Len(tasks) => stats' = stats
         ]_vars

\* two fetches that took several attempts were processed, one of them ended
\* in an error
C11_Witness ==
    /\ retried_processed >= 2
    /\ stats.total_number_of_errors = 1
    /\ stats.total_number_of_urls_crawled >= 2

\* C12: a fetch that fails (error status or exception) ends as a finished
\* task with an empty result and leaves crawl where it is; no task ever ends
\* with an exception; after a failure crawl still returns, and a run that was
\* not cancelled returns the statistics with the queue and the task list
\* empty.
C12_FailureIsLocal ==
    /\ [](\A i \in 1..Len(tasks) : tasks[i].pc # "raised")
    /\ [][\A i \in 1..Len(tasks) :
            (/\ Len(tasks') = Len(tasks)
             /\ tasks[i].pc = "io"
             /\ tasks'[i].pc # "io"
             /\ stats'.total_number_of_errors > stats.total_number_of_errors)
            => /\ tasks'[i].pc = "done"
               /\ tasks'[i].links = <<>>
               /\ crawl_pc' = crawl_pc
               /\ crawl_result' = crawl_result
               /\ urls_to_visit' = urls_to_visit]_vars
    /\ (stats.total_number_of_errors > 0) ~> (crawl_pc = "returned")
    /\ []((crawl_pc = "returned" /\ ~cancel_requested) =>
             /\ crawl_result = "stats"
             /\ tasks = <<>>
             /\ urls_to_visit = <<>>
             /\ stats.total_number_of_urls_crawled = Len(dispatched))

\* a run with failed fetches went on to other URLs and returned normally
C12_Witness ==
    /\ crawl_pc = "returned"
    /\ ~cancel_requested
    /\ crawl_result = "stats"
    /\ stats.total_number_of_errors >= 2
    /\ Len(dispatched) >= 4

\* C13: when crawl is called without allowed domains, the host test rejects
\* nothing: at the end of a run that was not cancelled, every link that was
\* queued and is not blacklisted has been dispatched, in its own form or in
\* another form of the same page, whatever its host.
C13_NoListAdmitsAllHosts ==
    (domains_arg = {} /\ crawl_pc = "returned" /\ ~cancel_requested) =>
        \A e \in enqueued :
            ~Blacklisted(e[1]) =>
                \E k \in 1..Len(dispatched) :
                    urldefrag(dispatched[k][1]) = urldefrag(e[1])

\* a URL passes the allow-list and the blacklist tests of should_crawl_url
Admissible(url) ==
    /\ allowed_domains = {} \/ netloc(url) \in allowed_domains
    /\ ~Blacklisted(url)

LinkSet(url) == {PageLinks(url)[n] : n \in 1..Len(PageLinks(url))}

\* the URLs at the end of a chain of at most n links from the seed in which
\* every URL is admissible
RECURSIVE ReachableWithin(_)
ReachableWithin(n) ==
    IF n = 0 THEN {u \in {start_url} : Admissible(u)}
    ELSE LET R == ReachableWithin(n - 1) IN
         R \cup {l \in UNION {LinkSet(u) : u \in R} : Admissible(l)}

\* the length of the shortest such chain to url
Distance(url) ==
    CHOOSE n \in 0..max_depth :
        url \in ReachableWithin(n) /\ \A m \in 0..(n - 1) : url \notin ReachableWithin(m)

DispatchedSet == {dispatched[k][1] : k \in 1..Len(dispatched)}

\* C14: when every fetch succeeds, only URLs within max_depth admissible links
\* of the seed are dispatched, and when crawl has returned all of them have
\* been dispatched.
C14_DispatchedIsReachable ==
    /\ DispatchedSet \subseteq ReachableWithin(max_depth)
    /\ crawl_pc = "returned" => DispatchedSet = ReachableWithin(max_depth)

\* C17: the depth of a dispatched URL is the same in every run, whatever the
\* order of the completions: it is the depth the URL gets when the fetches
\* complete in the order of their dispatch, the length of the shortest chain
\* of links from the seed.
C17_DepthIndependentOfOrder ==
    \A k \in 1..Len(dispatched) :
        /\ dispatched[k][1] \in ReachableWithin(max_depth)
        /\ dispatched[k][2] = Distance(dispatched[k][1])

C16_ErrorResultNotCountedCrawled ==
    (Len(tasks) = 0 /\ ~cancel_requested) =>
        stats.total_number_of_urls_crawled + stats.total_number_of_errors
            <= Len(dispatched)

WaitingTasks == {i \in 1..Len(tasks) : tasks[i].pc \in {"wait_global", "wait_domain"}}
RunningTasks == {i \in 1..Len(tasks) : tasks[i].pc \in {"created", "io", "sleeping"}}

\* C18: the token protocol has no deadlock. A task holds its host's token
\* only while it holds a global token, and every token taken is given back
\* when the fetch ends, so the free tokens are the capacity less the holders;
\* when tasks wait for a token and no fetch is running, some waiting task can
\* take its token; and while a fetch is unfinished some fetch can take a step.
C18_NoTokenDeadlock ==
    /\ semaphore = rate_limit - Cardinality(GlobalHolders)
    /\ crawl_pc # "returned" =>
          \A d \in DOMAIN domain_semaphores :
              domain_semaphores[d] = DomainSemaphoreInit - Cardinality(DomainHolders(d))
    /\ (WaitingTasks # {} /\ RunningTasks = {}) =>
          \E i \in WaitingTasks : ENABLED (AcquireGlobal(i) \/ AcquireDomain(i))
    /\ UnfinishedTasks # {} => ENABLED (TaskStart \/ TokenStep)

\* both hosts are saturated, no global token is free, more fetches are
\* unfinished than there are global tokens and one of them waits for a token
C18_Witness ==
    /\ semaphore = 0
    /\ \A d \in Hosts : d \in DOMAIN domain_semaphores /\ domain_semaphores[d] = 0
    /\ Cardinality(UnfinishedTasks) > rate_limit
    /\ WaitingTasks # {}

\* C19: in every state, the states after the cleanup of crawl included, the
\* free capacity of the global semaphore is in 0..rate_limit and that of
\* every host's semaphore is in 0..MAX_CONCURRENT_PER_DOMAIN.
C19_CapacitiesWithinRange ==
    /\ semaphore \in 0..rate_limit
    /\ \A d \in DOMAIN domain_semaphores :
          domain_semaphores[d] \in 0..MAX_CONCURRENT_PER_DOMAIN

\* C20: when the first task that starts is for a host that is not tracked and
\* no tracked host contains the base domain of that host, the task ends at
\* once with an empty result: it takes no token and sends no request.
C20_UntrackedHostIsSkipped ==
    [][TaskStart =>
          LET i == MinOf(CreatedTasks)
              domain == netloc(tasks[i].url)
          IN (/\ domain \notin DOMAIN domain_stats
              /\ ~ \E d \in DOMAIN domain_stats : Contains(d, BaseDomain(domain)))
                 => /\ tasks'[i].pc = "done"
                    /\ tasks'[i].links = <<>>
                    /\ domain \notin DOMAIN domain_semaphores'
      ]_vars

\* C21: every dispatched task is processed as completed exactly once and each
\* completion adds one to the global crawled-URL counter: in a run that is
\* not cancelled the counter plus the number of in-flight tasks is the size
\* of the visited set, which has one member for every dispatch; a step that
\* takes finished tasks from the in-flight set adds their number to the
\* counter; and when crawl has returned the counter is the size of the
\* visited set.
C21_CrawledPlusInFlightIsVisited ==
    /\ [](~cancel_requested =>
            /\ stats.total_number_of_urls_crawled + Len(tasks) = Cardinality(visited_urls)
            /\ Cardinality(visited_urls) = Len(dispatched))
    /\ [][(~cancel_requested' /\ Len(tasks') < Len(tasks)) =>
              /\ \A i \in UnfinishedTasks :
                    \E j \in 1..Len(tasks') : tasks'[j].url = tasks[i].url
              /\ stats'.total_number_of_urls_crawled
                    = stats.total_number_of_urls_crawled + (Len(tasks) - Len(tasks'))
          ]_vars
    /\ []((crawl_pc = "returned" /\ ~cancel_requested) =>
            /\ Len(tasks) = 0
            /\ stats.total_number_of_urls_crawled = Cardinality(visited_urls))

\* a run that ended normally after a 429, an error result and a success
C21_Witness ==
    /\ crawl_pc = "returned"
    /\ ~cancel_requested
    /\ Cardinality(visited_urls) >= 3
    /\ stats.total_number_of_urls_crawled = Cardinality(visited_urls)
    /\ stats.total_number_of_errors >= 1
    /\ \E d \in DOMAIN domain_stats : domain_stats[d].consecutive_429s >= 1

====
